---- MODULE Spec2Model ----
(***************************************************************************)
(* SearchTheScience: the retry wrapper AsyncDDGS._retry                    *)
(* (searchthescience/ddgs_async.py) and the fan-out orchestrator           *)
(* multi_search_interface (searchthescience/search_functions.py).          *)
(*                                                                         *)
(* The specifications share the variables:                                 *)
(*   Spec         one call of multi_search_interface                       *)
(*   RetrySpec    a few callers of AsyncDDGS._retry, every call may fail   *)
(*   SemSpec      more callers than semaphore slots, few failures          *)
(*   RankSpec     one call of rerank_results on a drawn input              *)
(*   FlattenSpec  one call of expand_list on a drawn input                 *)
(***************************************************************************)
EXTENDS Integers, Sequences, FiniteSets, TLC

VARIABLES
    \* ---- one call of multi_search_interface ----
    queries,    \* search_queries: the input batch
    rerank,     \* the rerank argument
    cb,         \* logger_callback: "none", "ok" (returns normally) or
                \* "raises" (every invocation of it raises an Exception)
    tpc,        \* per query: state of its execute_search task
    ret,        \* per query: what its backend did (returned or raised)
    sub,        \* per query: the value execute_search returned
    invoked,    \* per query: the backends it invoked, in order
    completed,  \* the queries whose task finished, in order of finishing
    events,     \* the calls made to logger_callback, in order
    mpc,        \* multi_search_interface: "waiting", "returned", "raised"
    timedOut,   \* asyncio.wait_for raised TimeoutError
    out,        \* the sequence multi_search_interface returned
    \* ---- AsyncDDGS (one instance) ----
    callers,    \* the tasks that called _retry on this instance
    failCap,    \* how many failures of the wrapped call the run may see
    callVals,   \* the values the wrapped call may return in the run
    failures,   \* failures of the wrapped call so far
    sem,        \* self._semaphore._value
    rpc,        \* per caller: where it is in _retry
    attempt,    \* per caller: the loop variable of _retry
    calls,      \* per caller: invocations of the wrapped call so far
    hist,       \* per caller: the outcomes of its invocations, in order
    slept,      \* per caller: the asyncio.sleep calls it made, in order
    rresult,    \* per caller: how _retry ended
    cancels,    \* cancellations of callers so far
    leaked,     \* wrapped calls still running in a worker thread whose
                \* awaiting caller was cancelled
    \* ---- one call of a pure function (rerank_results, expand_list) ----
    fop,        \* "idle", "called" or "returned"
    fin,        \* the argument `results`
    fsc,        \* rerank_results: the BM25 score of each result's text
    ftk,        \* rerank_results: the token count of each result's text
    fout        \* the value returned

rvars == <<callers, failCap, callVals, failures, sem, rpc, attempt, calls, hist, slept,
           rresult, cancels, leaked>>

ovars == <<queries, rerank, cb, tpc, ret, sub, invoked, completed, events, mpc,
           timedOut, out>>

fvars == <<fop, fin, fsc, ftk, fout>>

vars == <<ovars, rvars, fvars>>

-----------------------------------------------------------------------------
(* Bounds of the model *)

MaxQueries == 2
NRetryCallers == 2
NSemCallers == 6
MaxCancels == 1
MaxResults == 3
MaxDepth == 2

-----------------------------------------------------------------------------
(* AsyncDDGS.__init__ *)

\* self.rate_limit_delay = 1.5 (seconds), here in milliseconds
rate_limit_delay == 1500
max_retries == 3
backoff_factor == 2
\* asyncio.Semaphore(5)
SemaphoreSlots == 5

\* What the wrapped call can return: DDGS returns a list of hits, maybe empty.
CallValues == {"empty", "hits"}

\* one invocation of the wrapped call: o is "ok", "rl" (RatelimitException),
\* "err" (another Exception) or "base" (a BaseException that is no Exception,
\* which neither except clause catches); v the value an "ok" call returned
Outcome(o, v) == [o |-> o, v |-> v]

NoResult == [k |-> "none", v |-> "none"]
Returned(v) == [k |-> "ret", v |-> v]
Raised(e) == [k |-> "exc", v |-> e]

\* (mutant) an acquire that also proceeds at _value = 0
SemaphoreFreeOffByOne(s) == s >= 0

\* asyncio.Semaphore.acquire: proceeds only while _value > 0
SemaphoreFree(s) == s > 0

\* (mutant) the except clauses, and their sleep, inside the `async with`
SlotsAfterFailureHeld(s) == s

\* the exception leaves the `async with self._semaphore` block, which
\* releases the slot, before an except clause of _retry handles it
SlotsAfterFailure(s) == s + 1

\* (mutant) no re-raise on the last attempt: the loop runs out into `return []`
IsLastAttemptNever(a) == FALSE

\* (mutant) the last attempt recognised one iteration too late
IsLastAttemptLate(a) == a = max_retries + 1

\* `if attempt == self.max_retries: raise`
IsLastAttempt(a) == a = max_retries

\* (mutant) the fallback of line 45 returned in place of the call's value
RetryReturnFallback(v) == "empty"

\* `return await asyncio.to_thread(func, *args, **kwargs)`
RetryReturn(v) == v

\* (mutant) the exponent counted from 1
HandleRateLimitDelayFromOne(a) == rate_limit_delay * (backoff_factor ^ (a + 1))

\* AsyncDDGS._handle_rate_limit: the delay it sleeps
HandleRateLimitDelay(a) == rate_limit_delay * (backoff_factor ^ a)

\* (mutant) the generic handler backing off like the rate-limit handler
OtherFailureDelayBackoff(a) == rate_limit_delay * (backoff_factor ^ a)

\* `await asyncio.sleep(self.rate_limit_delay)` of the generic handler
OtherFailureDelay(a) == rate_limit_delay

InitRetry(n, cap, vals) ==
    /\ callers = 1..n
    /\ failCap = cap
    /\ callVals = vals
    /\ failures = 0
    /\ sem = SemaphoreSlots
    /\ rpc = [c \in 1..n |-> "acquire"]
    /\ attempt = [c \in 1..n |-> 0]
    /\ calls = [c \in 1..n |-> 0]
    /\ hist = [c \in 1..n |-> <<>>]
    /\ slept = [c \in 1..n |-> <<>>]
    /\ rresult = [c \in 1..n |-> NoResult]
    /\ cancels = 0
    /\ leaked = 0

\* `async with self._semaphore:` entered, `asyncio.to_thread(func, ...)` started
Acquire(c) ==
    /\ rpc[c] = "acquire"
    /\ SemaphoreFree(sem)
    /\ sem' = sem - 1
    /\ rpc' = [rpc EXCEPT ![c] = "calling"]
    /\ calls' = [calls EXCEPT ![c] = @ + 1]
    /\ UNCHANGED ovars
    /\ UNCHANGED fvars
    /\ UNCHANGED <<callers, failCap, callVals, failures, attempt, hist, slept,
                   rresult, cancels, leaked>>

\* the wrapped call returns v: the semaphore is released, _retry returns v
CallReturns(c, v) ==
    /\ rpc[c] = "calling"
    /\ sem' = sem + 1
    /\ hist' = [hist EXCEPT ![c] = Append(@, Outcome("ok", v))]
    /\ rpc' = [rpc EXCEPT ![c] = "returned"]
    /\ rresult' = [rresult EXCEPT ![c] = Returned(RetryReturn(v))]
    /\ UNCHANGED ovars
    /\ UNCHANGED fvars
    /\ UNCHANGED <<callers, failCap, callVals, failures, attempt, calls, slept, cancels, leaked>>

\* the wrapped call raises: e = "rl" is RatelimitException, e = "err" any
\* other Exception, e = "base" a BaseException that no except clause of
\* _retry catches.  The `async with` block is left (slot released) before
\* the except clause runs.
CallRaises(c, e) ==
    /\ rpc[c] = "calling"
    /\ failures < failCap
    /\ failures' = failures + 1
    /\ sem' = SlotsAfterFailure(sem)
    /\ hist' = [hist EXCEPT ![c] = Append(@, Outcome(e, "none"))]
    /\ IF e = "base" \/ IsLastAttempt(attempt[c])
       THEN /\ rpc' = [rpc EXCEPT ![c] = "raised"]
            /\ rresult' = [rresult EXCEPT ![c] = Raised(e)]
            /\ slept' = slept
       ELSE /\ rpc' = [rpc EXCEPT ![c] = "sleeping"]
            /\ rresult' = rresult
            /\ slept' = [slept EXCEPT ![c] = Append(@,
                  [after |-> attempt[c], why |-> e,
                   delay |-> IF e = "rl" THEN HandleRateLimitDelay(attempt[c])
                                         ELSE OtherFailureDelay(attempt[c])])]
    /\ UNCHANGED ovars
    /\ UNCHANGED fvars
    /\ UNCHANGED <<callers, failCap, callVals, attempt, calls, cancels, leaked>>

\* the sleep is over: next iteration of `for attempt in range(max_retries + 1)`,
\* or, the range exhausted, the `return []` after the loop
Wake(c) ==
    /\ rpc[c] = "sleeping"
    /\ IF attempt[c] + 1 <= max_retries
       THEN /\ attempt' = [attempt EXCEPT ![c] = @ + 1]
            /\ rpc' = [rpc EXCEPT ![c] = "acquire"]
            /\ rresult' = rresult
       ELSE /\ attempt' = attempt
            /\ rpc' = [rpc EXCEPT ![c] = "returned"]
            /\ rresult' = [rresult EXCEPT ![c] = Returned("empty")]
    /\ UNCHANGED ovars
    /\ UNCHANGED fvars
    /\ UNCHANGED <<callers, failCap, callVals, failures, sem, calls, hist, slept, cancels, leaked>>

\* the caller's task is cancelled at one of its awaits.  Cancelled inside the
\* `async with`, it releases its slot while the worker thread runs on.
Cancel(c) ==
    /\ rpc[c] \in {"acquire", "calling", "sleeping"}
    /\ cancels < MaxCancels
    /\ cancels' = cancels + 1
    /\ rpc' = [rpc EXCEPT ![c] = "cancelled"]
    /\ rresult' = [rresult EXCEPT ![c] = Raised("CancelledError")]
    /\ IF rpc[c] = "calling"
       THEN sem' = sem + 1 /\ leaked' = leaked + 1
       ELSE sem' = sem /\ leaked' = leaked
    /\ UNCHANGED ovars
    /\ UNCHANGED fvars
    /\ UNCHANGED <<callers, failCap, callVals, failures, attempt, calls, hist, slept>>

\* a worker thread whose caller is gone finishes its call
ThreadEnds ==
    /\ leaked > 0
    /\ leaked' = leaked - 1
    /\ UNCHANGED ovars
    /\ UNCHANGED fvars
    /\ UNCHANGED <<callers, failCap, callVals, failures, sem, rpc, attempt, calls, hist,
                   slept, rresult, cancels>>

-----------------------------------------------------------------------------
(* Python values a backend may hand back.  Every value is a record of the   *)
(* same shape: a list carries its items, a SearchResult its identity.       *)

Res(i) == [t |-> "res", items |-> <<>>, id |-> i]
PyList(s) == [t |-> "list", items |-> s, id |-> 0]
PyNone == [t |-> "none", items |-> <<>>, id |-> 0]
\* a truthy object that is neither sized nor iterable (an int, say)
PyInt(n) == [t |-> "int", items |-> <<>>, id |-> n]

EmptyList == PyList(<<>>)

ResultIds == 1..3

\* (mutant) `if results is None` in place of `if not results`
TruthyNotNone(v) == v.t # "none"

\* bool(v)
Truthy(v) ==
    CASE v.t = "list" -> v.items # <<>>
      [] v.t = "none" -> FALSE
      [] v.t = "int" -> v.id # 0
      [] OTHER -> TRUE

\* len(v) and iter(v) are defined
IsList(v) == v.t = "list"

\* The values the modelled backends return: lists of results (empty, one,
\* two), a list holding a nested list, None, and a non-iterable object.
BackendValues ==
    { EmptyList,
      PyList(<<Res(1)>>),
      PyList(<<Res(2), Res(3)>>),
      PyList(<<PyList(<<Res(1)>>), Res(2)>>),
      PyNone,
      PyInt(5) }

\* What one backend invocation does: returns a value, raises an Exception
\* ("rl": the Exception with which it fails when its provider throttles it,
\* "exc": any other), or raises a BaseException that is no Exception
\* (KeyboardInterrupt, SystemExit, asyncio.CancelledError).  execute_search
\* calls the backend itself: no registered backend and no line of
\* multi_search_interface goes through AsyncDDGS._retry.
BackendOutcomes ==
    [k : {"ret"}, v : BackendValues] \cup [k : {"exc", "rl", "base"}, v : {PyNone}]

NoOutcome == [k |-> "none", v |-> PyNone]

-----------------------------------------------------------------------------
(* The registry *)

StableTag(n) == [enum |-> "SearchTypeStable", name |-> n]
AlphaTag(n) == [enum |-> "SearchType", name |-> n]

stable_search_map ==
    (StableTag("SCIENCE_GENERAL") :> "search_openalex")
    @@ (StableTag("SCIENCE_ARXIV") :> "search_arxiv")
    @@ (StableTag("ZENODO") :> "search_zenodo")

alpha_search_map ==
    (AlphaTag("SCIENCE_GENERAL") :> "search_openalex")
    @@ (AlphaTag("SCIENCE_ARXIV") :> "search_arxiv")
    @@ (AlphaTag("ZENODO") :> "search_zenodo")

SearchQuery(tag) == [kind |-> "SearchQuery", search_type |-> tag]
SearchQueryAlpha(tag) == [kind |-> "SearchQueryAlpha", search_type |-> tag]

\* The queries of the modelled batches: a stable query, an experimental
\* query, an experimental query whose tag has no backend (SearchType.WEB is
\* commented out of alpha_search_map), and a SearchQuery object carrying a
\* SearchType member (search_type assigned after construction).
QueryChoices ==
    { SearchQuery(StableTag("SCIENCE_GENERAL")),
      SearchQueryAlpha(AlphaTag("SCIENCE_ARXIV")),
      SearchQueryAlpha(AlphaTag("WEB")),
      SearchQuery(AlphaTag("ZENODO")) }

\* (mutant) the isinstance test dropped: the experimental table for every query
search_map_alpha_only(q) == alpha_search_map

\* (mutant) one table for both kinds of query
search_map_merged(q) == stable_search_map @@ alpha_search_map

\* `if isinstance(search_query, SearchQuery): search_map = stable_search_map
\*  else: search_map = alpha_search_map`
search_map(q) ==
    IF q.kind = "SearchQuery" THEN stable_search_map ELSE alpha_search_map

\* `search_type not in search_map` is false
InSearchMap(q) == q.search_type \in DOMAIN search_map(q)

-----------------------------------------------------------------------------
(* execute_search *)

Ev(kind, q, n) == [kind |-> kind, q |-> q, n |-> n]

\* `if logger_callback: logger_callback(kind, ...)`
Emit(evs, e) == IF cb = "none" THEN evs ELSE Append(evs, e)

\* an invocation of logger_callback raises
CallbackRaises == cb = "raises"

TaskEnd(st, s, evs) == [st |-> st, sub |-> s, evs |-> evs]

\* (mutant) an except clause that catches nothing
CaughtByNothing(o) == FALSE

\* `except Exception as e:` catches every Exception, no other BaseException
CaughtByExcept(o) == o.k \in {"exc", "rl"}

\* The except clause of execute_search: report search_error, log, return [].
\* evs: the callback calls of the try body.  A report that raises leaves
\* execute_search with that exception.
ExceptClause(i, evs) ==
    IF CallbackRaises
    THEN TaskEnd("raised", PyNone, Emit(evs, Ev("search_error", i, 0)))
    ELSE TaskEnd("done", EmptyList, Emit(evs, Ev("search_error", i, 0)))

\* (mutant) the invalid-tag branch without its `return []`: the lookup that
\* follows raises KeyError into the except clause
InvalidBranchNoReturn(i) ==
    ExceptClause(i, Emit(<<>>, Ev("invalid_search", i, 0)))

\* The branch of a tag that is no key of the selected table; a report that
\* raises does so inside the try.
InvalidBranch(i) ==
    IF CallbackRaises
    THEN ExceptClause(i, <<Ev("invalid_search", i, 0)>>)
    ELSE TaskEnd("done", EmptyList, Emit(<<>>, Ev("invalid_search", i, 0)))

\* execute_search from the point where the awaited backend yields outcome o.
AfterBackend(i, o) ==
    IF o.k # "ret"
    THEN IF CaughtByExcept(o)
         THEN ExceptClause(i, <<>>)
         ELSE TaskEnd("raised", PyNone, <<>>)
    ELSE IF ~ Truthy(o.v)
    THEN IF CallbackRaises
         THEN ExceptClause(i, <<Ev("no_results", i, 0)>>)
         ELSE TaskEnd("done", EmptyList, Emit(<<>>, Ev("no_results", i, 0)))
    ELSE IF cb # "none" /\ ~ IsList(o.v)
    THEN \* len(results) in the message raises TypeError before the call
         ExceptClause(i, <<>>)
    ELSE IF CallbackRaises
    THEN ExceptClause(i, <<Ev("results_found", i, Len(o.v.items))>>)
    ELSE TaskEnd("done", o.v,
                 Emit(<<>>, Ev("results_found", i, Len(o.v.items))))

\* the task of query i ends as `e` says
FinishTask(i, e) ==
    /\ tpc' = [tpc EXCEPT ![i] = e.st]
    /\ sub' = [sub EXCEPT ![i] = e.sub]
    /\ events' = events \o e.evs
    /\ completed' = Append(completed, i)

Queries == 1..Len(queries)

\* `search_map[search_type]`: the backend of query i
Backend(i) == search_map(queries[i])[queries[i].search_type]

\* The body of the backend has no await before it returns: search_openalex
\* runs its synchronous pyalex client on the scheduling thread.  search_arxiv
\* and search_zenodo await aiohttp.
RunsInline(fn) == fn = "search_openalex"

\* asyncio.gather creates the tasks in the order of its arguments and the
\* loop runs their first steps in that order
EarlierStarted(i) == \A j \in Queries : j < i => tpc[j] # "pending"

\* A backend that runs inline has not returned: the scheduling thread is
\* inside its call, and the loop runs no task, no callback and no timer.
LoopBlocked == \E j \in Queries : tpc[j] = "blocking"

\* a suspended backend is resumed by a later iteration of the loop, after
\* the first step of every task
AllStarted == \A j \in Queries : tpc[j] # "pending"

\* first step of the task of query i, its tag unregistered: it runs to its
\* end without suspending
StartInvalid(i) ==
    /\ tpc[i] = "pending"
    /\ ~ LoopBlocked
    /\ EarlierStarted(i)
    /\ ~ InSearchMap(queries[i])
    /\ FinishTask(i, InvalidBranch(i))
    /\ UNCHANGED <<queries, rerank, cb, ret, invoked, mpc, timedOut, out>>
    /\ UNCHANGED rvars
    /\ UNCHANGED fvars

\* first step of the task of query i: the backend is invoked and suspends
\* at its provider call
StartSuspend(i) ==
    /\ tpc[i] = "pending"
    /\ ~ LoopBlocked
    /\ EarlierStarted(i)
    /\ InSearchMap(queries[i])
    /\ ~ RunsInline(Backend(i))
    /\ tpc' = [tpc EXCEPT ![i] = "awaiting"]
    /\ invoked' = [invoked EXCEPT ![i] = Append(@, Backend(i))]
    /\ UNCHANGED <<queries, rerank, cb, ret, sub, completed, events, mpc,
                   timedOut, out>>
    /\ UNCHANGED rvars
    /\ UNCHANGED fvars

\* first step of the task of query i: the backend is invoked and finishes
\* without ever suspending, blocking the loop meanwhile
StartInline(i, o) ==
    /\ tpc[i] = "pending"
    /\ ~ LoopBlocked
    /\ EarlierStarted(i)
    /\ InSearchMap(queries[i])
    /\ RunsInline(Backend(i))
    /\ invoked' = [invoked EXCEPT ![i] = Append(@, Backend(i))]
    /\ ret' = [ret EXCEPT ![i] = o]
    /\ FinishTask(i, AfterBackend(i, o))
    /\ UNCHANGED <<queries, rerank, cb, mpc, timedOut, out>>
    /\ UNCHANGED rvars
    /\ UNCHANGED fvars

\* first step of the task of query i: the backend is invoked, runs inline
\* and never returns (its synchronous client waits for a provider that does
\* not answer)
StartInlineHang(i) ==
    /\ tpc[i] = "pending"
    /\ ~ LoopBlocked
    /\ EarlierStarted(i)
    /\ InSearchMap(queries[i])
    /\ RunsInline(Backend(i))
    /\ tpc' = [tpc EXCEPT ![i] = "blocking"]
    /\ invoked' = [invoked EXCEPT ![i] = Append(@, Backend(i))]
    /\ UNCHANGED <<queries, rerank, cb, ret, sub, completed, events, mpc,
                   timedOut, out>>
    /\ UNCHANGED rvars
    /\ UNCHANGED fvars

\* the suspended backend of query i finishes with outcome o
Complete(i, o) ==
    /\ tpc[i] = "awaiting"
    /\ ~ LoopBlocked
    /\ AllStarted
    /\ ret' = [ret EXCEPT ![i] = o]
    /\ FinishTask(i, AfterBackend(i, o))
    /\ UNCHANGED <<queries, rerank, cb, invoked, mpc, timedOut, out>>
    /\ UNCHANGED rvars
    /\ UNCHANGED fvars

-----------------------------------------------------------------------------
(* rerank_results *)

max_tokens == 4000

\* the BM25 score and the token count of a result are functions of its text;
\* an element that is no SearchResult has no text
ScoreTables == [ResultIds -> 0..1]
TokenTables == {<<1500, 3000, 5000>>}
ScoreOf(r, sc) == IF r.t = "res" THEN sc[r.id] ELSE 0
TokensOf(r, tk) == IF r.t = "res" THEN tk[r.id] ELSE 0

\* (mutant) a descending sort that reverses the order of ties
SortsBeforeUnstable(results, sc, j, i) ==
    \/ ScoreOf(results[j], sc) > ScoreOf(results[i], sc)
    \/ ScoreOf(results[j], sc) = ScoreOf(results[i], sc) /\ j > i

\* sorted(enumerate(scores), key=lambda x: x[1], reverse=True): index j comes
\* before index i when its score is higher, or equal and j < i (stable)
SortsBefore(results, sc, j, i) ==
    \/ ScoreOf(results[j], sc) > ScoreOf(results[i], sc)
    \/ ScoreOf(results[j], sc) = ScoreOf(results[i], sc) /\ j < i

scored_indices(results, sc) ==
    [k \in 1..Len(results) |->
        CHOOSE i \in 1..Len(results) :
            Cardinality({j \in 1..Len(results) : SortsBefore(results, sc, j, i)})
                = k - 1]

\* (mutant) the top-scored result taken at every rank
ranked_results_top(results, sc) ==
    [k \in 1..Len(results) |-> results[scored_indices(results, sc)[1]]]

ranked_results(results, sc) ==
    [k \in 1..Len(results) |-> results[scored_indices(results, sc)[k]]]

RECURSIVE final_results_continue(_, _, _, _)
\* (mutant) the token loop skipping a result that does not fit (`continue`)
final_results_continue(ranked, tk, k, total_tokens) ==
    IF k > Len(ranked)
    THEN <<>>
    ELSE IF total_tokens + TokensOf(ranked[k], tk) <= max_tokens
         THEN <<ranked[k]>> \o
              final_results_continue(ranked, tk, k + 1,
                                     total_tokens + TokensOf(ranked[k], tk))
         ELSE final_results_continue(ranked, tk, k + 1, total_tokens)

\* the token loop: accept while the running total stays within max_tokens,
\* break at the first result that does not fit
RECURSIVE final_results(_, _, _, _)
final_results(ranked, tk, k, total_tokens) ==
    IF k > Len(ranked)
    THEN <<>>
    ELSE IF total_tokens + TokensOf(ranked[k], tk) <= max_tokens
         THEN <<ranked[k]>> \o
              final_results(ranked, tk, k + 1,
                            total_tokens + TokensOf(ranked[k], tk))
         ELSE <<>>

rerank_results(results, sc, tk) ==
    IF results = <<>>
    THEN results
    ELSE final_results(ranked_results(results, sc), tk, 1, 0)

-----------------------------------------------------------------------------
(* multi_search_interface *)

\* (mutant) results taken in the order the tasks finished
GatherAsCompleted(subs, done) == [k \in 1..Len(done) |-> subs[done[k]]]

\* asyncio.gather: the results in the order of the awaitables
GatherResults(subs, done) == subs

\* (mutant) a flatten that opens one level of nesting only
expand_items_shallow(s) ==
    LET Opened(k) == IF s[k].t = "list" THEN s[k].items ELSE <<s[k]>>
        F[k \in 0..Len(s)] == IF k = 0 THEN <<>> ELSE F[k - 1] \o Opened(k)
    IN F[Len(s)]

RECURSIVE expand_items(_)
\* the loop of expand_list over the items of a list
expand_items(s) ==
    IF s = <<>>
    THEN <<>>
    ELSE (IF Head(s).t = "list" THEN expand_items(Head(s).items) ELSE <<Head(s)>>)
         \o expand_items(Tail(s))

\* expand_list: a non-list gives [results], a list its leaves
expand_list(results) ==
    IF results.t # "list" THEN <<results>> ELSE expand_items(results.items)

\* (mutant) the sub-results flattened to their leaves by expand_list
FlatResultsExpanded(results) == expand_list(PyList(results))

RECURSIVE FlatResults(_)
\* `[r for sublist in results if sublist for r in sublist]`
FlatResults(results) ==
    IF results = <<>>
    THEN <<>>
    ELSE (IF Truthy(Head(results)) THEN Head(results).items ELSE <<>>)
         \o FlatResults(Tail(results))

\* (mutant) the sub-results completed so far returned at the deadline
TimeoutReturnPartial(subs) == FlatResults(subs)

\* `return []` of the TimeoutError handler
TimeoutReturn(subs) == <<>>

AllDone == \A i \in Queries : tpc[i] = "done"

\* asyncio.wait_for times out: the gather and every task not yet finished are
\* cancelled, the timeout is reported, [] is returned.  A report that raises
\* leaves multi_search_interface with that exception.
Timeout ==
    /\ mpc = "waiting"
    /\ ~ LoopBlocked
    /\ timedOut' = TRUE
    /\ tpc' = [i \in Queries |->
                 IF tpc[i] \in {"pending", "awaiting"} THEN "cancelled" ELSE tpc[i]]
    /\ events' = Emit(events, Ev("timeout", 0, 0))
    /\ IF CallbackRaises
       THEN mpc' = "raised" /\ out' = out
       ELSE mpc' = "returned" /\ out' = TimeoutReturn(sub)
    /\ UNCHANGED <<queries, rerank, cb, ret, sub, invoked, completed>>
    /\ UNCHANGED rvars
    /\ UNCHANGED fvars

\* The deadline fires after a task has raised, between the completion of the
\* gather future and the wake-up of the coroutine that awaits it.  The timeout
\* context of asyncio.wait_for (Python 3.12 and later) asks the awaiting
\* coroutine to cancel; the gather future, already done, refuses the cancel
\* and cancels no task; the coroutine wakes with CancelledError, which the
\* context turns into TimeoutError.  The handler runs while the other tasks,
\* all started by then, run on.
TimeoutLate ==
    /\ mpc = "waiting"
    /\ ~ LoopBlocked
    /\ \E i \in Queries : tpc[i] = "raised"
    /\ \A i \in Queries : tpc[i] # "pending"
    /\ timedOut' = TRUE
    /\ events' = Emit(events, Ev("timeout", 0, 0))
    /\ IF CallbackRaises
       THEN mpc' = "raised" /\ out' = out
       ELSE mpc' = "returned" /\ out' = TimeoutReturn(sub)
    /\ UNCHANGED <<queries, rerank, cb, tpc, ret, sub, invoked, completed>>
    /\ UNCHANGED rvars
    /\ UNCHANGED fvars

\* asyncio.gather hands the first exception of a task to its awaiter: it
\* leaves wait_for and multi_search_interface, the other tasks run on
Propagate ==
    /\ mpc = "waiting"
    /\ ~ LoopBlocked
    /\ \E i \in Queries : tpc[i] = "raised"
    /\ mpc' = "raised"
    /\ UNCHANGED <<queries, rerank, cb, tpc, ret, sub, invoked, completed, events,
                   timedOut, out>>
    /\ UNCHANGED rvars
    /\ UNCHANGED fvars

\* (mutant) search_complete reporting the count taken before reranking
CompleteWithStaleCount(flat_results) ==
    /\ events' = Emit(events, Ev("search_complete", 0, Len(FlatResults(sub))))
    /\ IF CallbackRaises
       THEN mpc' = "raised" /\ out' = out
       ELSE mpc' = "returned" /\ out' = flat_results

\* the tail of multi_search_interface: report search_complete and return
\* flat_results.
CompleteWith(flat_results) ==
    /\ events' = Emit(events, Ev("search_complete", 0, Len(flat_results)))
    /\ IF CallbackRaises
       THEN mpc' = "raised" /\ out' = out
       ELSE mpc' = "returned" /\ out' = flat_results

\* every task returned: flatten, rerank, report search_complete, return.
\* Iterating a truthy sub-result that is not iterable raises TypeError.
Collect ==
    /\ mpc = "waiting"
    /\ ~ LoopBlocked
    /\ AllDone
    /\ LET results == GatherResults(sub, completed) IN
       IF \E i \in Queries : Truthy(results[i]) /\ ~ IsList(results[i])
       THEN /\ mpc' = "raised"
            /\ UNCHANGED <<out, events>>
       ELSE IF rerank /\ FlatResults(results) # <<>>
       THEN \E sc \in ScoreTables, tk \in TokenTables :
               CompleteWith(rerank_results(FlatResults(results), sc, tk))
       ELSE CompleteWith(FlatResults(results))
    /\ UNCHANGED <<queries, rerank, cb, tpc, ret, sub, invoked, completed, timedOut>>
    /\ UNCHANGED rvars
    /\ UNCHANGED fvars

InitOrch(batches, reranks, callbacks) ==
    /\ queries \in batches
    /\ rerank \in reranks
    /\ cb \in callbacks
    /\ tpc = [i \in 1..Len(queries) |-> "pending"]
    /\ ret = [i \in 1..Len(queries) |-> NoOutcome]
    /\ sub = [i \in 1..Len(queries) |-> PyNone]
    /\ invoked = [i \in 1..Len(queries) |-> <<>>]
    /\ completed = <<>>
    /\ events = <<>>
    /\ mpc = "waiting"
    /\ timedOut = FALSE
    /\ out = <<>>

Batches == UNION {[1..n -> QueryChoices] : n \in 0..MaxQueries}

NextOrch ==
    \/ \E i \in Queries : StartInvalid(i)
    \/ \E i \in Queries : StartSuspend(i)
    \/ \E i \in Queries : \E o \in BackendOutcomes : StartInline(i, o)
    \/ \E i \in Queries : StartInlineHang(i)
    \/ \E i \in Queries : \E o \in BackendOutcomes : Complete(i, o)
    \/ Timeout
    \/ TimeoutLate
    \/ Propagate
    \/ Collect

\* no pure-function call in this run
InitIdle ==
    /\ fop = "idle"
    /\ fin = PyNone
    /\ fsc = <<0, 0, 0>>
    /\ ftk = <<0, 0, 0>>
    /\ fout = PyNone

NextRetry ==
    \/ \E c \in callers : Acquire(c)
    \/ \E c \in callers : \E v \in callVals : CallReturns(c, v)
    \/ \E c \in callers : \E e \in {"rl", "err", "base"} : CallRaises(c, e)
    \/ \E c \in callers : Wake(c)
    \/ \E c \in callers : Cancel(c)
    \/ ThreadEnds

\* one call of multi_search_interface; the wrapper is not in use
Init ==
    /\ InitOrch(Batches, BOOLEAN, {"none", "ok", "raises"})
    /\ InitRetry(0, 0, {})
    /\ InitIdle

Spec == Init /\ [][NextOrch]_vars

\* One call under a fair scheduler and a fair timer: a task that can take
\* its first step takes it, the coroutine that awaits the gather is resumed
\* when the gather is done, and the deadline fires while the call waits.
\* Nothing obliges a suspended backend to finish.
Fairness ==
    /\ WF_vars(\E i \in Queries : StartInvalid(i))
    /\ WF_vars(\E i \in Queries : StartSuspend(i))
    /\ WF_vars(\E i \in Queries : \E o \in BackendOutcomes : StartInline(i, o))
    /\ WF_vars(Timeout)
    /\ WF_vars(Propagate)
    /\ WF_vars(Collect)

LiveSpec == Init /\ [][NextOrch]_vars /\ Fairness

\* callers of one AsyncDDGS instance; no orchestrator call.  The failures
\* allowed let one caller exhaust its attempts while each caller fails once more.
RetryInit ==
    /\ InitOrch({<<>>}, {FALSE}, {"none"})
    /\ InitRetry(NRetryCallers, max_retries + 1 + NRetryCallers, CallValues)
    /\ InitIdle

RetrySpec == RetryInit /\ [][NextRetry]_vars

\* more callers than slots; one failure and one return value keep it small
SemInit ==
    /\ InitOrch({<<>>}, {FALSE}, {"none"})
    /\ InitRetry(NSemCallers, 1, {"hits"})
    /\ InitIdle

SemSpec == SemInit /\ [][NextRetry]_vars

\* The inputs of rerank_results in RankSpec: lists of up to MaxResults
\* results, a score and a token count for each result's text.  The token
\* counts include one above max_tokens and pairs that do not fit together.
RankInputs ==
    UNION {[1..n -> {Res(i) : i \in ResultIds}] : n \in 0..MaxResults}
RankScoreTables == [ResultIds -> 0..2]
RankTokenTables == [ResultIds -> {400, 2500, 3000, 5000}]

\* rerank_results is called with `results` = fin
RankInit ==
    /\ InitOrch({<<>>}, {FALSE}, {"none"})
    /\ InitRetry(0, 0, {})
    /\ fop = "called"
    /\ fin \in {PyList(r) : r \in RankInputs}
    /\ fsc \in RankScoreTables
    /\ ftk \in RankTokenTables
    /\ fout = PyNone

\* rerank_results returns
RerankReturns ==
    /\ fop = "called"
    /\ fop' = "returned"
    /\ fout' = PyList(rerank_results(fin.items, fsc, ftk))
    /\ UNCHANGED <<fin, fsc, ftk>>
    /\ UNCHANGED ovars
    /\ UNCHANGED rvars

RankSpec == RankInit /\ [][RerankReturns]_vars

\* The arguments of expand_list in FlattenSpec: results, None, and lists of
\* up to two such values nested up to MaxDepth deep, and the example
\* [A, [B, [C, D]], E] of the specification.
FlattenLeaves == {Res(1), Res(2), PyNone}
FlattenWidths == 0..2

RECURSIVE Nested(_)
Nested(d) ==
    IF d = 0
    THEN FlattenLeaves
    ELSE LET V == Nested(d - 1)
         IN V \cup {PyList(s) : s \in UNION {[1..n -> V] : n \in FlattenWidths}}

FlattenExample ==
    PyList(<<Res(1), PyList(<<Res(2), PyList(<<Res(3), Res(4)>>)>>), Res(5)>>)

\* expand_list is called with `results` = fin
FlattenInit ==
    /\ InitOrch({<<>>}, {FALSE}, {"none"})
    /\ InitRetry(0, 0, {})
    /\ fop = "called"
    /\ fin \in Nested(MaxDepth) \cup {FlattenExample}
    /\ fsc = <<0, 0, 0>>
    /\ ftk = <<0, 0, 0>>
    /\ fout = PyNone

\* expand_list returns
ExpandReturns ==
    /\ fop = "called"
    /\ fop' = "returned"
    /\ fout' = PyList(expand_list(fin))
    /\ UNCHANGED <<fin, fsc, ftk>>
    /\ UNCHANGED ovars
    /\ UNCHANGED rvars

FlattenSpec == FlattenInit /\ [][ExpandReturns]_vars

-----------------------------------------------------------------------------
(* Claims about multi_search_interface *)

\* logger_callback is absent or returns normally
CallbackBehaves == cb \in {"none", "ok"}

HasEvent(kind, i) ==
    \E k \in 1..Len(events) : events[k].kind = kind /\ events[k].q = i

\* the tag of q is no key of the table its kind selects
NotAKey(q) ==
    \/ q.kind = "SearchQuery" /\ q.search_type \notin DOMAIN stable_search_map
    \/ q.kind = "SearchQueryAlpha" /\ q.search_type \notin DOMAIN alpha_search_map

C2_TimeoutDiscardsPartialWork ==
    (CallbackBehaves /\ timedOut) =>
        /\ mpc = "returned"
        /\ out = <<>>
        /\ cb = "ok" => HasEvent("timeout", 0)

C2_Witness ==
    /\ timedOut
    /\ cb = "ok"
    /\ \E i, j \in Queries :
          /\ tpc[i] = "done"
          /\ sub[i] = PyList(<<Res(2), Res(3)>>)
          /\ tpc[j] = "cancelled"
    /\ mpc = "returned"
    /\ out = <<>>

\* C3 (invalid tag): for a query whose tag is no key of the table selected for
\* it no backend is ever invoked; with a callback that is absent or returns
\* normally its task never raises, ends with the empty sub-result and (with a
\* callback) an invalid_search event, and a batch of such queries never makes
\* the call raise.
C3_InvalidTag ==
    /\ \A i \in Queries :
          NotAKey(queries[i]) =>
              /\ invoked[i] = <<>>
              /\ ret[i] = NoOutcome
              /\ CallbackBehaves =>
                    /\ tpc[i] \in {"pending", "done", "cancelled"}
                    /\ tpc[i] = "done" =>
                          /\ sub[i] = EmptyList
                          /\ cb = "ok" => HasEvent("invalid_search", i)
    /\ (CallbackBehaves /\ \A i \in Queries : NotAKey(queries[i])) =>
          mpc # "raised"

C3_Witness ==
    /\ cb = "ok"
    /\ \E i, j \in Queries :
          /\ NotAKey(queries[i])
          /\ tpc[i] = "done"
          /\ HasEvent("invalid_search", i)
          /\ invoked[j] # <<>>
    /\ mpc = "returned"
    /\ ~ timedOut

\* C4 (no exception escapes), as claimed: with a callback that is absent or
\* returns normally, multi_search_interface never raises, whatever the
\* backends return or raise.
C4_NoExceptionEscapes == CallbackBehaves => mpc # "raised"

\* the sub-results of queries k.. in input order, concatenated
RECURSIVE SubResultsFrom(_)
SubResultsFrom(k) ==
    IF k > Len(queries)
    THEN <<>>
    ELSE (IF sub[k].t = "list" THEN sub[k].items ELSE <<>>) \o SubResultsFrom(k + 1)

\* C5 (order preservation): a call with rerank = false that returned without
\* timeout returned the concatenation of the sub-results in the order of the
\* input queries, in whatever order the tasks finished.
C5_OrderPreservation ==
    (~ rerank /\ mpc = "returned" /\ ~ timedOut) => out = SubResultsFrom(1)

C5_Witness ==
    /\ ~ rerank
    /\ mpc = "returned"
    /\ ~ timedOut
    /\ completed = <<2, 1>>
    /\ sub[1] = PyList(<<Res(1)>>)
    /\ sub[2] = PyList(<<Res(2), Res(3)>>)
    /\ out = <<Res(1), Res(2), Res(3)>>

\* C6 (pass-through): a call with rerank = false and a single query of a
\* registered tag whose backend returned a list, and that returned without
\* timeout, returned exactly the items of that list.
C6_PassThrough ==
    ( /\ ~ rerank
      /\ Len(queries) = 1
      /\ mpc = "returned"
      /\ ~ timedOut
      /\ ~ NotAKey(queries[1])
      /\ ret[1].k = "ret"
      /\ IsList(ret[1].v) ) => out = ret[1].v.items

C6_Witness ==
    /\ ~ rerank
    /\ Len(queries) = 1
    /\ mpc = "returned"
    /\ ~ timedOut
    /\ ret[1] = [k |-> "ret", v |-> PyList(<<PyList(<<Res(1)>>), Res(2)>>)]
    /\ out = <<PyList(<<Res(1)>>), Res(2)>>

\* C15 (aggregation inside the orchestrator), as claimed: a call that
\* completed without timeout returned only non-list leaves, namely the leaves
\* of the sub-results from left to right when rerank is off.
C15_OnlyLeaves ==
    (mpc = "returned" /\ ~ timedOut) =>
        /\ \A k \in 1..Len(out) : out[k].t # "list"
        /\ ~ rerank => out = expand_list(PyList(sub))

\* C16 (empty output only by no-match or timeout), as claimed: a call that
\* returned the empty sequence either timed out or had only empty
\* sub-results.
C16_EmptyOnlyByNoMatchOrTimeout ==
    (mpc = "returned" /\ out = <<>>) =>
        \/ timedOut
        \/ \A i \in Queries : ~ Truthy(sub[i])

HasEventN(kind, i, n) ==
    \E k \in 1..Len(events) :
        events[k].kind = kind /\ events[k].q = i /\ events[k].n = n

\* C17 (per-query outcome events), as claimed: with a callback that returns
\* normally, every finished query with an empty sub-result has a no_results
\* event and every finished query with a non-empty sub-result has a
\* results_found event whose count is the length of the sub-result.
C17_OutcomeEventsAsClaimed ==
    cb = "ok" =>
        \A i \in Queries :
            tpc[i] = "done" =>
                IF Truthy(sub[i])
                THEN IsList(sub[i]) /\ HasEventN("results_found", i, Len(sub[i].items))
                ELSE HasEvent("no_results", i)

\* C17 (per-query outcome events), amended: with a callback supplied, a
\* no_results event is emitted for every query whose backend returned an
\* empty value, and a results_found event with the length of the sub-result
\* for every finished query whose sub-result is non-empty; a finished query
\* whose sub-result is empty has exactly one of no_results (backend returned
\* an empty value), invalid_search (tag not registered) and search_error
\* (backend failed), and no results_found.
C17_OutcomeEvents ==
    cb # "none" =>
        \A i \in Queries :
            /\ (ret[i].k = "ret" /\ ~ Truthy(ret[i].v)) => HasEvent("no_results", i)
            /\ (tpc[i] = "done" /\ Truthy(sub[i])) =>
                  /\ IsList(sub[i])
                  /\ HasEventN("results_found", i, Len(sub[i].items))
                  /\ ~ HasEvent("no_results", i)
            /\ (tpc[i] = "done" /\ ~ Truthy(sub[i])) =>
                  /\ ~ HasEvent("results_found", i)
                  /\ HasEvent("no_results", i) <=>
                        (ret[i].k = "ret" /\ ~ Truthy(ret[i].v))
                  /\ HasEvent("invalid_search", i) <=> NotAKey(queries[i])
                  /\ HasEvent("search_error", i) <=>
                        \/ ret[i].k \in {"exc", "rl"}
                        \/ ret[i].k = "ret" /\ Truthy(ret[i].v)

C17_Witness ==
    /\ cb = "ok"
    /\ Len(queries) = 2
    /\ tpc = <<"done", "done">>
    /\ ret[1] = [k |-> "ret", v |-> EmptyList]
    /\ HasEvent("no_results", 1)
    /\ sub[2] = PyList(<<Res(2), Res(3)>>)
    /\ HasEventN("results_found", 2, 2)

IsPerQueryKind(kind) ==
    kind \in {"invalid_search", "no_results", "results_found", "search_error"}

\* C18 (completion event): when a call with a callback that returns normally
\* has returned without timeout, search_complete is the last event and the
\* only one of its kind, every query has a per-query event before it, and
\* its count is the length of the returned sequence.
C18_CompletionEvent ==
    (cb = "ok" /\ mpc = "returned" /\ ~ timedOut) =>
        /\ events # <<>>
        /\ events[Len(events)] = Ev("search_complete", 0, Len(out))
        /\ \A k \in 1..(Len(events) - 1) : IsPerQueryKind(events[k].kind)
        /\ \A i \in Queries :
              \E k \in 1..(Len(events) - 1) : events[k].q = i

\* rerank on, three results found, one returned: the count reported is 1
C18_Witness ==
    /\ cb = "ok"
    /\ rerank
    /\ mpc = "returned"
    /\ ~ timedOut
    /\ Len(FlatResults(sub)) = 3
    /\ Len(out) = 1
    /\ events[Len(events)] = Ev("search_complete", 0, 1)

\* C19 (tier separation): a SearchQuery never invokes a backend unless its
\* tag is a key of stable_search_map, and then it invokes that entry once and
\* nothing else; a SearchQuery whose tag is a key of alpha_search_map only
\* never invokes a backend and ends with the empty sub-result.
C19_TierSeparation ==
    \A i \in Queries :
        queries[i].kind = "SearchQuery" =>
            LET tag == queries[i].search_type IN
            /\ invoked[i] # <<>> =>
                  /\ tag \in DOMAIN stable_search_map
                  /\ invoked[i] = <<stable_search_map[tag]>>
            /\ (tag \in DOMAIN stable_search_map
                   /\ tpc[i] \in {"awaiting", "done", "raised"}) =>
                  invoked[i] = <<stable_search_map[tag]>>
            /\ (tag \in DOMAIN alpha_search_map
                   /\ tag \notin DOMAIN stable_search_map) =>
                  /\ invoked[i] = <<>>
                  /\ ret[i] = NoOutcome
                  /\ (CallbackBehaves /\ tpc[i] = "done") => sub[i] = EmptyList

C19_Witness ==
    /\ queries = <<SearchQuery(StableTag("SCIENCE_GENERAL")),
                   SearchQuery(AlphaTag("ZENODO"))>>
    /\ invoked[1] = <<"search_openalex">>
    /\ tpc = <<"done", "done">>
    /\ invoked[2] = <<>>
    /\ mpc = "returned"
    /\ ~ timedOut

\* C20 (cancellation at the deadline), as claimed: with a callback that is
\* absent or returns normally, once the timeout has been reported no per-query
\* task is still to start or still running (so no backend invocation starts
\* and no task reports anything), and the timeout event is the last event.
C20_CancellationAtDeadline ==
    (CallbackBehaves /\ timedOut) =>
        /\ \A i \in Queries : tpc[i] \notin {"pending", "awaiting"}
        /\ cb = "ok" => events[Len(events)].kind = "timeout"

\* C21 (the progress sink is observational), as claimed: a callback that
\* raises whenever it is invoked makes neither a per-query task nor the call
\* raise, and every finished query whose backend returned a list has that
\* list's items as sub-result.
C21_SinkObservational ==
    cb = "raises" =>
        /\ mpc # "raised"
        /\ \A i \in Queries :
              /\ tpc[i] # "raised"
              /\ (tpc[i] = "done" /\ ret[i].k = "ret" /\ IsList(ret[i].v)) =>
                    sub[i] = ret[i].v

\* C22 (rate limiting reaches the orchestrator only after retries), as
\* claimed: a query whose backend failed on a throttling provider ends (with
\* search_error and the empty sub-result) only after max_retries retries,
\* that is after max_retries + 1 invocations of its backend.
C22_RateLimitAfterRetries ==
    \A i \in Queries :
        (ret[i].k = "rl" /\ tpc[i] = "done") =>
            Len(invoked[i]) = max_retries + 1

\* the backend invocation of query i has ended (returned or raised)
BackendEnded(i) == ret[i] # NoOutcome

\* C23 (one concurrent invocation per query), as claimed: the backend of a
\* query with a registered tag is invoked at most once, and exactly once as
\* soon as its task has run; and no invocation waits for another one to end:
\* whenever the invocation of one query has ended, the task of every other
\* query has started (its backend is invoked if its tag is registered).
C23_OneConcurrentInvocation ==
    \A i \in Queries :
        /\ Len(invoked[i]) <= 1
        /\ (InSearchMap(queries[i]) /\ tpc[i] \in {"awaiting", "done", "raised"}) =>
              invoked[i] = <<Backend(i)>>
        /\ BackendEnded(i) =>
              \A j \in Queries :
                  InSearchMap(queries[j]) => (timedOut \/ invoked[j] # <<>>)

\* C24 (no blocking call runs inline), as claimed: the step that invokes the
\* backend of a query leaves its task suspended at the provider call, with
\* the call outstanding, so that sibling tasks and the deadline can run
\* before it ends.
C24_NoInlineBlocking ==
    [][\A i \in Queries :
          (invoked[i] = <<>> /\ invoked'[i] # <<>>) =>
              (tpc'[i] = "awaiting" /\ ret'[i] = NoOutcome)]_vars

\* C25 (termination under the deadline), as claimed: under a fair scheduler
\* and a fair timer every call of multi_search_interface eventually ends; the
\* claim has it end by returning, and this formula also accepts a call that
\* ends by raising.
C25_Termination == <>(mpc # "waiting")

\* the positions of the terminal events (timeout, search_complete)
TerminalEvents ==
    {k \in 1..Len(events) : events[k].kind \in {"timeout", "search_complete"}}

\* C26 (exactly one terminal event, and it is last), as claimed: with a
\* callback that returns normally, at most one terminal event is ever
\* emitted, no event follows it, and a call that has ended has emitted one.
C26_OneTerminalEvent ==
    cb = "ok" =>
        /\ Cardinality(TerminalEvents) <= 1
        /\ \A k \in TerminalEvents : k = Len(events)
        /\ mpc # "waiting" => Cardinality(TerminalEvents) = 1

\* the positions of the per-query events of query i
QueryEvents(i) ==
    {k \in 1..Len(events) : events[k].q = i /\ IsPerQueryKind(events[k].kind)}

\* C27 (one outcome event per query): with a callback that returns normally
\* no query ever has more than one per-query event (timeout or not); when the
\* call has returned without timeout every query has exactly one, and the
\* events are these N followed by the one search_complete.
C27_OneEventPerQuery ==
    cb = "ok" =>
        /\ \A i \in Queries : Cardinality(QueryEvents(i)) <= 1
        /\ (mpc = "returned" /\ ~ timedOut) =>
              /\ \A i \in Queries : Cardinality(QueryEvents(i)) = 1
              /\ Len(events) = Len(queries) + 1
              /\ \A k \in 1..Len(queries) : IsPerQueryKind(events[k].kind)
              /\ events[Len(events)].kind = "search_complete"

\* two queries, one unregistered and one with results: three events
C27_Witness ==
    /\ cb = "ok"
    /\ Len(queries) = 2
    /\ mpc = "returned"
    /\ ~ timedOut
    /\ Len(events) = 3
    /\ HasEvent("invalid_search", 1)
    /\ HasEvent("results_found", 2)

\* under timeout: one query reported, the other was cancelled unreported
C27_WitnessTimeout ==
    /\ cb = "ok"
    /\ timedOut
    /\ \E i, j \in Queries :
          Cardinality(QueryEvents(i)) = 1 /\ Cardinality(QueryEvents(j)) = 0

-----------------------------------------------------------------------------
(* Claims about AsyncDDGS._retry *)

\* every invocation caller c made so far raised the rate-limit signal
AllRateLimited(c) ==
    /\ hist[c] # <<>>
    /\ \A k \in 1..Len(hist[c]) : hist[c][k].o = "rl"

\* C7 (retry exhaustion): a caller whose wrapped call raised the rate-limit
\* signal on every attempt never makes more than 4 invocations, has not
\* returned anything (in particular not the empty fallback), ends as soon as
\* the 4th invocation has failed, and ends by raising that rate-limit failure.
C7_RetryExhaustion ==
    \A c \in callers :
        /\ calls[c] <= 4
        /\ AllRateLimited(c) =>
              /\ rpc[c] # "returned"
              /\ rpc[c] = "raised" => calls[c] = 4 /\ rresult[c] = Raised("rl")
              /\ Len(hist[c]) = 4 => rpc[c] = "raised"

C7_Witness ==
    \E c \in callers :
        /\ AllRateLimited(c)
        /\ rpc[c] = "raised"
        /\ calls[c] = 4
        /\ Len(slept[c]) = 3

\* C8 (retry success): a caller whose wrapped call raised the rate-limit
\* signal exactly twice is still retrying (it has raised nothing), and once the
\* third invocation succeeds _retry has returned that invocation's value
\* after exactly 3 invocations, with no invocation after the success.
TwoRateLimits(c) ==
    /\ Len(hist[c]) >= 2
    /\ hist[c][1].o = "rl"
    /\ hist[c][2].o = "rl"

C8_RetrySuccess ==
    \A c \in callers :
        /\ (TwoRateLimits(c) /\ Len(hist[c]) = 2) =>
              rpc[c] \in {"sleeping", "acquire", "calling", "cancelled"}
        /\ (TwoRateLimits(c) /\ Len(hist[c]) >= 3 /\ hist[c][3].o = "ok") =>
              /\ Len(hist[c]) = 3
              /\ calls[c] = 3
              /\ rpc[c] = "returned"
              /\ rresult[c] = Returned(hist[c][3].v)

C8_Witness ==
    \E c \in callers :
        /\ TwoRateLimits(c)
        /\ Len(hist[c]) = 3
        /\ hist[c][3] = Outcome("ok", "hits")
        /\ rresult[c] = Returned("hits")

\* the callers inside `async with self._semaphore`, awaiting the wrapped call
InFlight == {c \in callers : rpc[c] = "calling"}

C10_BackoffSchedule ==
    \A c \in callers :
        /\ Len(slept[c]) <= 3
        /\ \A k \in 1..Len(slept[c]) :
              /\ slept[c][k].after = k - 1
              /\ slept[c][k].why = hist[c][k].o
              /\ slept[c][k].why = "rl" =>
                    slept[c][k].delay = <<1500, 3000, 6000>>[k]
              /\ slept[c][k].why = "err" => slept[c][k].delay = 1500

C10_Witness ==
    \E c \in callers :
        /\ Len(slept[c]) = 3
        /\ \A k \in 1..3 : slept[c][k].why = "rl"
        /\ slept[c][3].delay = 6000
        /\ \E d \in callers : Len(slept[d]) >= 2 /\ slept[d][2].why = "err"

\* C11 (other failures): an invocation that raised an Exception other than the
\* rate-limit signal on one of the first 3 attempts is followed by a sleep of
\* the fixed 1.5 s and, once the sleep is over, by the next attempt; raised on
\* the 4th attempt (after max_retries = 3 retries) it ends _retry, which
\* raises that failure.  _retry never raises such a failure earlier.
C11_OtherFailures ==
    \A c \in callers :
        /\ \A k \in 1..Len(hist[c]) :
              hist[c][k].o = "err" =>
                  IF k <= max_retries
                  THEN /\ Len(slept[c]) >= k
                       /\ slept[c][k] = [after |-> k - 1, why |-> "err", delay |-> 1500]
                       /\ (Len(hist[c]) = k /\ rpc[c] # "cancelled") =>
                             \/ rpc[c] = "sleeping" /\ attempt[c] = k - 1
                             \/ rpc[c] \in {"acquire", "calling"} /\ attempt[c] = k
                  ELSE /\ k = max_retries + 1
                       /\ rpc[c] = "raised"
                       /\ rresult[c] = Raised("err")
        /\ rresult[c] = Raised("err") => Len(hist[c]) = max_retries + 1

C11_Witness ==
    \E c \in callers :
        /\ Len(hist[c]) = 4
        /\ \A k \in 1..4 : hist[c][k].o = "err"
        /\ Len(slept[c]) = 3
        /\ \A k \in 1..3 : slept[c][k].delay = 1500
        /\ rresult[c] = Raised("err")

-----------------------------------------------------------------------------
(* Claims about rerank_results *)

RECURSIVE SumTokens(_, _)
SumTokens(rs, tk) ==
    IF rs = <<>> THEN 0 ELSE TokensOf(Head(rs), tk) + SumTokens(Tail(rs), tk)

\* C12 (greedy-prefix truncation): the output of rerank_results is a prefix of
\* the score-sorted sequence, its token counts sum to at most max_tokens, and
\* it is the longest such prefix: when a result is left out, the first one
\* left out does not fit on top of the output (so nothing after it is
\* accepted, even if it would fit).
C12_GreedyPrefix ==
    fop = "returned" =>
        LET ranked == ranked_results(fin.items, fsc)
            n == Len(fout.items)
        IN /\ n <= Len(ranked)
           /\ fout.items = SubSeq(ranked, 1, n)
           /\ SumTokens(fout.items, ftk) <= max_tokens
           /\ n < Len(ranked) =>
                 SumTokens(fout.items, ftk) + TokensOf(ranked[n + 1], ftk) > max_tokens

\* the example of the specification, scaled to max_tokens = 4000: R1 fits, R2
\* does not fit on top of R1, R3 alone would fit and is never considered
C12_Witness ==
    /\ fop = "returned"
    /\ fin = PyList(<<Res(1), Res(2), Res(3)>>)
    /\ fsc = <<2, 1, 0>>
    /\ ftk = <<3000, 2500, 400>>
    /\ fout = PyList(<<Res(1)>>)

\* C13 (stable descending order): the output of rerank_results lists elements
\* of the input at pairwise different positions p[1], p[2], ... such that the
\* scores never increase along p, and of two neighbours with equal score the
\* one that came first in the input comes first.
C13_StableDescending ==
    fop = "returned" =>
        LET results == fin.items
            n == Len(fout.items)
        IN \E p \in [1..n -> 1..Len(results)] :
              /\ \A a, b \in 1..n : a # b => p[a] # p[b]
              /\ \A a \in 1..n : fout.items[a] = results[p[a]]
              /\ \A a \in 1..n : a < n =>
                    \/ ScoreOf(results[p[a]], fsc) > ScoreOf(results[p[a + 1]], fsc)
                    \/ /\ ScoreOf(results[p[a]], fsc) = ScoreOf(results[p[a + 1]], fsc)
                       /\ p[a] < p[a + 1]

\* R3 and R1 tie on the highest score and keep their input order, R2 follows
C13_Witness ==
    /\ fop = "returned"
    /\ fin = PyList(<<Res(3), Res(2), Res(1)>>)
    /\ fsc = <<2, 1, 2>>
    /\ ftk = <<400, 400, 400>>
    /\ fout = PyList(<<Res(3), Res(1), Res(2)>>)

-----------------------------------------------------------------------------
(* Claims about expand_list *)

\* the non-list leaves of a value, left to right
RECURSIVE LeavesOf(_)
LeavesOf(v) ==
    IF v.t # "list"
    THEN <<v>>
    ELSE LET F[k \in 0..Len(v.items)] ==
                 IF k = 0 THEN <<>> ELSE F[k - 1] \o LeavesOf(v.items[k])
         IN F[Len(v.items)]

\* C14 (flatten): expand_list returns a list without a list among its
\* elements, holding exactly the non-list leaves of its argument from left to
\* right; a non-list argument gives the one-element list holding it.
C14_Flatten ==
    fop = "returned" =>
        /\ \A k \in 1..Len(fout.items) : fout.items[k].t # "list"
        /\ fout.items = LeavesOf(fin)
        /\ fin.t # "list" => fout.items = <<fin>>

\* [A, [B, [C, D]], E] gives [A, B, C, D, E]
C14_Witness ==
    /\ fop = "returned"
    /\ fin = FlattenExample
    /\ fout = PyList(<<Res(1), Res(2), Res(3), Res(4), Res(5)>>)

\* a non-list argument
C14_WitnessLeaf ==
    /\ fop = "returned"
    /\ fin = Res(1)
    /\ fout = PyList(<<Res(1)>>)

\* C28 (no slot is held during backoff): the slots taken are exactly those of
\* the callers with a call in flight, so a caller that sleeps before its
\* retry holds none; and while a caller sleeps, any caller waiting to start
\* its call can start it as long as fewer than 5 calls are in flight.
C28_NoSlotDuringBackoff ==
    /\ sem = SemaphoreSlots - Cardinality(InFlight)
    /\ (\E c \in callers : rpc[c] = "sleeping") =>
          \A d \in callers :
              (rpc[d] = "acquire" /\ Cardinality(InFlight) < SemaphoreSlots) =>
                  ENABLED Acquire(d)

\* one caller sleeps in backoff while the 5 others have their calls in flight
C28_Witness ==
    /\ \E c \in callers : rpc[c] = "sleeping" /\ Len(slept[c]) = 1
    /\ Cardinality(InFlight) = SemaphoreSlots
    /\ sem = 0

\* the outcome of the last invocation caller c made
LastOutcome(c) == hist[c][Len(hist[c])]

\* C29 (shared attempt budget): whatever mix of rate-limit and other failures
\* the wrapped call shows, a caller invokes it at most max_retries + 1 = 4
\* times; _retry has ended once the 4th invocation has ended; when it
\* returned, it returned the value of its last invocation, and when it raised,
\* it raised the exception of its last invocation.
C29_SharedAttemptBudget ==
    \A c \in callers :
        /\ calls[c] <= max_retries + 1
        /\ Len(hist[c]) = max_retries + 1 => rpc[c] \in {"returned", "raised"}
        /\ rpc[c] = "returned" =>
              /\ hist[c] # <<>>
              /\ LastOutcome(c).o = "ok"
              /\ rresult[c] = Returned(LastOutcome(c).v)
              /\ calls[c] = Len(hist[c])
        /\ rpc[c] = "raised" =>
              /\ hist[c] # <<>>
              /\ LastOutcome(c).o \in {"rl", "err", "base"}
              /\ rresult[c] = Raised(LastOutcome(c).o)
              /\ calls[c] = Len(hist[c])

\* rate-limit and other failures alternate: the 4th failure ends _retry
C29_Witness ==
    \E c \in callers :
        /\ Len(hist[c]) = 4
        /\ hist[c][1].o = "rl"
        /\ hist[c][2].o = "err"
        /\ hist[c][3].o = "rl"
        /\ hist[c][4].o = "err"
        /\ rresult[c] = Raised("err")
        /\ calls[c] = 4

-----------------------------------------------------------------------------

\* how often r occurs in the sequence rs
Occurrences(rs, r) == Cardinality({k \in 1..Len(rs) : rs[k] = r})

\* C30 (reranking only selects and reorders): the output of rerank_results is
\* no longer than its input, every result occurs in the output at most as
\* often as in the input (so each element of the output is an element of the
\* input and none is duplicated or invented), and an empty input gives an
\* empty output.
C30_SelectsAndReorders ==
    fop = "returned" =>
        /\ Len(fout.items) <= Len(fin.items)
        /\ \A k \in 1..Len(fout.items) :
              /\ Occurrences(fin.items, fout.items[k]) >= 1
              /\ Occurrences(fout.items, fout.items[k])
                    <= Occurrences(fin.items, fout.items[k])
        /\ fin.items = <<>> => fout.items = <<>>

\* three results in, the two that fit out, in score order
C30_Witness ==
    /\ fop = "returned"
    /\ fin = PyList(<<Res(1), Res(2), Res(3)>>)
    /\ fsc = <<0, 1, 2>>
    /\ ftk = <<3000, 2500, 400>>
    /\ fout = PyList(<<Res(3), Res(2)>>)

\* the empty input
C30_WitnessEmpty ==
    /\ fop = "returned"
    /\ fin = PyList(<<>>)
    /\ fout = PyList(<<>>)

====
